---- MODULE Spec2Model ----
(***************************************************************************)
(* Model of src/app.py: the Streamlit script of the Adaptavolve dashboard. *)
(* One session of the script is modelled.  Streamlit re-executes the whole *)
(* script on every user interaction, so every action below except          *)
(* CacheExpire is one complete execution of the script, triggered by one   *)
(* interaction (a plain rerun, a change of the typology selectbox, or a    *)
(* move of one slider).                                                    *)
(*                                                                         *)
(* Numbers.  The script computes Compatibility in floating point as        *)
(* sum((score / 5) * weight).  The model keeps the exact value as a number *)
(* of FIFTHS of a percentage point: the term (score / 5) * weight is the   *)
(* integer score * weight fifths, and 100.0 percent is 500 fifths.         *)
(*                                                                         *)
(* Sorting.  DataFrame.sort_values is called without kind=, i.e. with      *)
(* pandas' default kind='quicksort', which pandas documents as not stable. *)
(* The relative order of rows with equal keys is therefore not determined  *)
(* by the script but by the sort of the installed numpy, which is a fixed  *)
(* algorithm.  The model draws that order once, in Init (tie_order), from  *)
(* TieOrders.                                                              *)
(***************************************************************************)
EXTENDS Integers, Sequences, FiniteSets

\* ------------------------------------------------------------------ bounds

\* Number of slider moves the user makes in the modelled session.
MaxMoves == 1

\* ------------------------------------------------------- program constants

program_options == <<"Housing", "Education", "Lab", "Data Center">>

Typologies == {program_options[i] : i \in DOMAIN program_options}

\* st.slider(row['Criterion'], 0, 5, ...)
SliderMin == 0
SliderMaxSix == 5 + 1
SliderMax == 5

\* impact = (5 - val) * 20
ImpactFactor == 20

\* .head(5)
TopN == 5

\* ------------------------------------------------- the remote spreadsheet

Row(cat, crit, h, e, l, d) ==
    [Category |-> cat, Criterion |-> crit,
     Weight |-> [p \in Typologies |->
                    CASE p = "Housing" -> h
                      [] p = "Education" -> e
                      [] p = "Lab" -> l
                      [] OTHER -> d]]

\* A published sheet with a single criterion.
Sheet1 == << Row("Structure", "A", 100, 50, 125, 100) >>

\* A published sheet with two criteria (Housing weights 60 and 40).
Sheet2 == << Row("Structure", "A", 60, 30, 100, 100),
             Row("Systems",   "B", 40, 20,  25,   0) >>

\* What load_live_data can return: pd.read_csv raised (the except branch:
\* st.error and an empty DataFrame), or the table read.
LoadFailed == [failed |-> TRUE, rows |-> <<>>]
Loaded(rows) == [failed |-> FALSE, rows |-> rows]

LoadResults == {LoadFailed, Loaded(Sheet1), Loaded(Sheet2)}

\* A name that is not bound (a script local never assigned, an empty cache):
\* the empty sequence; a bound one is the one-element sequence of its value.
Unbound == <<>>
Bound(v) == <<v>>

\* ------------------------------------------------------------- dictionaries
\* A Python dict is a sequence of [k, v] in insertion order.

RECURSIVE DictFind(_, _, _)
DictFind(d, k, i) ==
    IF i > Len(d) THEN 0
    ELSE IF d[i].k = k THEN i ELSE DictFind(d, k, i + 1)

DictHas(d, k) == DictFind(d, k, 1) # 0

DictGet(d, k) == d[DictFind(d, k, 1)].v

DictSet(d, k, v) ==
    IF DictHas(d, k)
    THEN [d EXCEPT ![DictFind(d, k, 1)] = [k |-> k, v |-> v]]
    ELSE Append(d, [k |-> k, v |-> v])

\* ------------------------------------------------------------------- state

VARIABLES
    cache,            \* st.cache_data entry of load_live_data
    session_state,    \* st.session_state: has key program_memory once set
    target_program,   \* value held by the "Target Typology" selectbox
    rendered,         \* criteria whose slider the last run rendered
    df,               \* df of the last run
    outcome,          \* how the last run ended
    messages,         \* st.error messages the last run showed
    comparison_data,  \* locals of the last run (<<>> when never assigned)
    comp_df,
    current_score,
    best_alt,
    risk_df,
    event,            \* the interaction that triggered the last run
    moves,            \* slider moves made so far
    tie_order         \* the order the installed sort gives equal keys

vars == <<cache, session_state, target_program, rendered, df, outcome,
          messages, comparison_data, comp_df, current_score, best_alt,
          risk_df, event, moves, tie_order>>

\* ------------------------------------------------------- user interactions

Rerun == [kind |-> "rerun", typology |-> "", criterion |-> "", value |-> 0]

SelectEvent(t) ==
    [kind |-> "select", typology |-> t, criterion |-> "", value |-> 0]

\* The slider with key f"{t}_{c}" was moved to v.
SliderEvent(t, c, v) ==
    [kind |-> "slider", typology |-> t, criterion |-> c, value |-> v]

\* ------------------------------------------------- 1. live data connection

\* @st.cache_data(ttl=10) load_live_data(): the values a call can return.  A
\* cached entry is returned as it is (a cached failure included, its st.error
\* replayed); otherwise the function body runs and its result is cached.
LoadLiveData(c) == IF c = Unbound THEN LoadResults ELSE {c[1]}

\* The guard `if not df.empty` left out.
EmptyNever(rows) == FALSE

\* df.empty
Empty(rows) == Len(rows) = 0

ConnectionError == "Connection Error: exception"
CheckSheetUrl == "Connection Error: Check Google Sheet URL."
UncaughtKeyError == "KeyError"

\* ------------------------------------------------------ 2. typology config

RECURSIVE ThreeScores(_, _, _)
ThreeScores(rows, i, d) ==
    IF i > Len(rows) THEN d
    ELSE ThreeScores(rows, i + 1, DictSet(d, rows[i].Criterion, 3))

\* The default score 3 in place of 0.
InitMemoryThree(rows) == [p \in Typologies |-> ThreeScores(rows, 1, <<>>)]

RECURSIVE ZeroScores(_, _, _)
ZeroScores(rows, i, d) ==
    IF i > Len(rows) THEN d
    ELSE ZeroScores(rows, i + 1, DictSet(d, rows[i].Criterion, 0))

\* {p: {row['Criterion']: 0 for _, row in df.iterrows()} for p in
\* program_options}, or {p: {} for p in program_options} when df is empty.
InitMemory(rows) == [p \in Typologies |-> ZeroScores(rows, 1, <<>>)]

\* ------------------------------------------------------------- 4. sidebar

\* st.sidebar.selectbox("Target Typology", program_options): a new widget
\* shows program_options[0]; Streamlit drops the state of a widget that a
\* run does not render, so `held` is the value the widget held after the
\* last run that rendered it (the first option after a run without it).
Selectbox(held, ev) == IF ev.kind = "select" THEN ev.typology ELSE held

\* st.slider(label, 0, 5, value=value, key=key): the position the user moved
\* this slider to, if this run was triggered by that move, else `value`.
Slider(value, t, c, ev) ==
    IF ev.kind = "slider" /\ ev.typology = t /\ ev.criterion = c
    THEN ev.value
    ELSE value

\* Every typology shares one ScoreSet: what the store would do if the four
\* dicts of program_memory were one object.
StoreScoresShared(mem, t, d) == [p \in DOMAIN mem |-> d]

\* st.session_state.program_memory[target_program][...] = ...: the slider
\* loop writes into the ScoreSet of the target typology only.
StoreScores(mem, t, d) == [mem EXCEPT ![t] = d]

RECURSIVE Unique(_, _, _)
\* df['Category'].unique(): the categories in order of first appearance.
Unique(rows, i, acc) ==
    IF i > Len(rows) THEN acc
    ELSE IF \E j \in DOMAIN acc : acc[j] = rows[i].Category
         THEN Unique(rows, i + 1, acc)
         ELSE Unique(rows, i + 1, Append(acc, rows[i].Category))

\* df[df['Category'] == cat]
CatGroup(rows, cat) == SelectSeq(rows, LAMBDA r : r.Category = cat)

RECURSIVE SliderRows(_, _, _)
\* The rows in the order the two nested loops visit them.
SliderRows(rows, cats, i) ==
    IF i > Len(cats) THEN <<>>
    ELSE CatGroup(rows, cats[i]) \o SliderRows(rows, cats, i + 1)

RECURSIVE SidebarSliders(_, _, _, _, _, _)
\* The slider loop over `rows` from index i on, on the ScoreSet d of the
\* target typology t.  Reading program_memory[t][criterion] for value=
\* raises KeyError when d has no such key; the loop stops there.
SidebarSliders(rows, i, d, t, ev, shown) ==
    IF i > Len(rows) THEN [d |-> d, rendered |-> shown, error |-> FALSE]
    ELSE LET c == rows[i].Criterion IN
         IF ~DictHas(d, c)
         THEN [d |-> d, rendered |-> shown, error |-> TRUE]
         ELSE SidebarSliders(rows, i + 1,
                             DictSet(d, c, Slider(DictGet(d, c), t, c, ev)),
                             t, ev, shown \cup {c})

\* --------------------------------------------------------- 5. math engine

\* df['Criterion'].map(program_memory[p]) then .fillna(0): the score of the
\* criterion, 0 where the dict has no such key.
MapFillna(d, c) == IF DictHas(d, c) THEN DictGet(d, c) ELSE 0

RECURSIVE WeightedScores(_, _, _, _)
WeightedScores(p, d, rows, i) ==
    IF i > Len(rows) THEN 0
    ELSE MapFillna(d, rows[i].Criterion) * rows[i].Weight[p]
         + WeightedScores(p, d, rows, i + 1)

RECURSIVE Weights(_, _, _)
Weights(p, rows, i) ==
    IF i > Len(rows) THEN 0
    ELSE rows[i].Weight[p] + Weights(p, rows, i + 1)

\* The other normalisation: the weighted sum divided by the sum of the
\* weights and scaled to 100.
CompatibilityNormalised(p, d, rows, i) ==
    IF Weights(p, rows, i) = 0 THEN 0
    ELSE (100 * WeightedScores(p, d, rows, i)) \div Weights(p, rows, i)

RECURSIVE Compatibility(_, _, _, _)
\* (scores / 5 * df[f"{p} Weight"]).sum(), in fifths of a percentage point,
\* over rows i..Len(rows).
Compatibility(p, d, rows, i) ==
    IF i > Len(rows) THEN 0
    ELSE MapFillna(d, rows[i].Criterion) * rows[i].Weight[p]
         + Compatibility(p, d, rows, i + 1)

\* comparison_data = [{"Typology": p, "Compatibility": ...} for p in
\* program_options]
ComparisonData(mem, rows) ==
    [i \in DOMAIN program_options |->
        [Typology |-> program_options[i],
         Compatibility |-> Compatibility(program_options[i],
                                         mem[program_options[i]], rows, 1)]]

Max(S) == CHOOSE x \in S : \A y \in S : y <= x
Min(S) == CHOOSE x \in S : \A y \in S : x <= y

\* The orders a sort can give rows with equal keys, as far as this model
\* follows them: the order they had in the table, or the opposite one.
TieOrders == {"original", "reversed"}

RECURSIVE DescendingOrder(_, _, _)
\* The order in which the indices S of `keys` come out of a descending sort
\* that puts equal keys in the order `tie`.
DescendingOrder(keys, S, tie) ==
    IF S = {} THEN <<>>
    ELSE LET m == Max({keys[i] : i \in S})
             ties == {j \in S : keys[j] = m}
             i == IF tie = "original" THEN Min(ties) ELSE Max(ties)
         IN <<i>> \o DescendingOrder(keys, S \ {i}, tie)

\* table.sort_values(column, ascending=False), keys being that column.
SortValues(table, keys, tie) ==
    LET o == DescendingOrder(keys, DOMAIN table, tie)
    IN [i \in DOMAIN table |-> table[o[i]]]

\* comp_df[comp_df['Typology'] == target_program]['Compatibility'].values[0]
CurrentScore(cdf, t) ==
    SelectSeq(cdf, LAMBDA r : r.Typology = t)[1].Compatibility

\* The top row of comp_df, the target typology not excluded.
BestAltTop(cdf, t) == cdf[1]

\* comp_df[comp_df['Typology'] != target_program].iloc[0]
BestAlt(cdf, t) == SelectSeq(cdf, LAMBDA r : r.Typology # t)[1]

\* --------------------------------------------------- conversion hurdles

\* The score itself scaled, not its distance from 5.
ImpactOfScore(val) == val * ImpactFactor

\* impact = (5 - val) * 20
Impact(val) == (SliderMax - val) * ImpactFactor

\* risk_data: one row per item of program_memory[target_program], in the
\* dict's order.
RiskData(d) ==
    [i \in DOMAIN d |-> [Criterion |-> d[i].k, Impact |-> Impact(d[i].v)]]

\* .head(n)
Head_(table, n) == SubSeq(table, 1, IF Len(table) < n THEN Len(table) ELSE n)

\* ------------------------------------------------------------- the script

Init ==
    /\ cache = Unbound
    /\ session_state = <<>>
    /\ target_program = program_options[1]
    /\ rendered = {}
    /\ df = <<>>
    /\ outcome = "none"
    /\ messages = {}
    /\ comparison_data = Unbound
    /\ comp_df = Unbound
    /\ current_score = Unbound
    /\ best_alt = Unbound
    /\ risk_df = Unbound
    /\ event = Rerun
    /\ moves = 0
    /\ tie_order \in TieOrders

\* The run leaves the locals of sections 5 and 6 unassigned.
NoLocals ==
    /\ comparison_data' = Unbound
    /\ comp_df' = Unbound
    /\ current_score' = Unbound
    /\ best_alt' = Unbound
    /\ risk_df' = Unbound

\* Sections 5 and 6 of the script, on program_memory mem and target t.
MathEngine(mem, rows, t) ==
    \E cd \in {ComparisonData(mem, rows)}, rd \in {RiskData(mem[t])} :
      \E cdf \in {SortValues(cd, [i \in DOMAIN cd |-> cd[i].Compatibility],
                             tie_order)},
         rdf \in {SortValues(rd, [i \in DOMAIN rd |-> rd[i].Impact],
                             tie_order)} :
          /\ comparison_data' = cd
          /\ comp_df' = cdf
          /\ current_score' = Bound(CurrentScore(cdf, t))
          /\ best_alt' = Bound(BestAlt(cdf, t))
          /\ risk_df' = Head_(rdf, TopN)

\* The script from section 2 on, df being rows and load_live_data having
\* failed or not.
Script(rows, failed, ev) ==
    \E mem \in {IF "program_memory" \in DOMAIN session_state
                THEN session_state.program_memory
                ELSE InitMemory(rows)} :
        IF Empty(rows)
        THEN /\ session_state' = [program_memory |-> mem]
             /\ target_program' = program_options[1]
             /\ rendered' = {}
             /\ outcome' = "empty"
             /\ messages' = (IF failed THEN {ConnectionError} ELSE {})
                            \cup {CheckSheetUrl}
             /\ NoLocals
        ELSE \E t \in {Selectbox(target_program, ev)} :
             \E s \in {SidebarSliders(
                           SliderRows(rows, Unique(rows, 1, <<>>), 1),
                           1, mem[t], t, ev, {})} :
             \E mem2 \in {StoreScores(mem, t, s.d)} :
                /\ session_state' = [program_memory |-> mem2]
                /\ target_program' = t
                /\ rendered' = s.rendered
                /\ IF s.error
                   THEN /\ outcome' = "KeyError"
                        /\ messages' = {UncaughtKeyError}
                        /\ NoLocals
                   ELSE /\ outcome' = "ok"
                        /\ messages' = IF failed THEN {ConnectionError}
                                       ELSE {}
                        /\ MathEngine(mem2, rows, t)

\* One execution of the script, triggered by the interaction ev.
ScriptRun(ev) ==
    \E loaded \in LoadLiveData(cache) :
        /\ cache' = Bound(loaded)
        /\ df' = loaded.rows
        /\ event' = ev
        /\ moves' = IF ev.kind = "slider" THEN moves + 1 ELSE moves
        /\ UNCHANGED tie_order
        /\ Script(loaded.rows, loaded.failed, ev)

\* The ttl of the cached load_live_data result runs out.
CacheExpire ==
    /\ cache # Unbound
    /\ cache' = Unbound
    /\ UNCHANGED <<session_state, target_program, rendered, df, outcome,
                   messages, comparison_data, comp_df, current_score,
                   best_alt, risk_df, event, moves, tie_order>>

\* A run not triggered by the selectbox or a slider (the first run of the
\* session, the form's Apply button, the Generate button).
PlainRerun == ScriptRun(Rerun)

\* The user picks another target typology in the selectbox the last run
\* rendered.
SelectTarget ==
    /\ outcome \in {"ok", "KeyError"}
    /\ \E t \in Typologies \ {target_program} : ScriptRun(SelectEvent(t))

\* The user moves one of the sliders the last run rendered.
MoveSlider ==
    /\ moves < MaxMoves
    /\ \E c \in rendered, v \in SliderMin..SliderMax :
          /\ v # DictGet(session_state.program_memory[target_program], c)
          /\ ScriptRun(SliderEvent(target_program, c, v))

Next == CacheExpire \/ PlainRerun \/ SelectTarget \/ MoveSlider

Spec == Init /\ [][Next]_vars

\* ================================================================== claims

HasMemory == "program_memory" \in DOMAIN session_state

\* The ScoreSet of typology p.
ScoreSet(p) == session_state.program_memory[p]

HasScore(p, c) == \E i \in DOMAIN ScoreSet(p) : ScoreSet(p)[i].k = c

ScoreOf(p, c) ==
    ScoreSet(p)[CHOOSE i \in DOMAIN ScoreSet(p) : ScoreSet(p)[i].k = c].v

Criteria == {df[k].Criterion : k \in DOMAIN df}

RECURSIVE SumOver(_, _)
SumOver(f, S) ==
    IF S = {} THEN 0
    ELSE LET x == CHOOSE y \in S : TRUE IN f[x] + SumOver(f, S \ {x})

\* Sum over the criteria of the store of score * weight, for typology p.
ScoreTimesWeight(p) ==
    SumOver([k \in DOMAIN df |->
                ScoreOf(p, df[k].Criterion) * df[k].Weight[p]], DOMAIN df)

WeightSum(p) == SumOver([k \in DOMAIN df |-> df[k].Weight[p]], DOMAIN df)

AllScore(p, v) == \A c \in Criteria : HasScore(p, c) /\ ScoreOf(p, c) = v

\* The Compatibility column of comparison_data for typology p.
CompatibilityOf(p) ==
    comparison_data[CHOOSE i \in DOMAIN comparison_data :
                        comparison_data[i].Typology = p].Compatibility

\* comparison_data has one row per typology, in the order of
\* program_options.
FourRows ==
    /\ Len(comparison_data) = 4
    /\ comparison_data[1].Typology = "Housing"
    /\ comparison_data[2].Typology = "Education"
    /\ comparison_data[3].Typology = "Lab"
    /\ comparison_data[4].Typology = "Data Center"

\* C1: after a run that reaches the math engine, the compatibility of every
\* typology p is the raw weighted sum over the criteria of the store,
\* sum((score_p[c] / 5) * weight_p[c]), with no division by the sum of the
\* weights: 5 * compatibility = sum(score * weight).
C1_RawWeightedSum ==
    outcome = "ok" =>
        /\ FourRows
        /\ \A p \in {"Housing", "Education", "Lab", "Data Center"} :
              /\ \A c \in Criteria : HasScore(p, c) /\ ScoreOf(p, c) \in 0..5
              /\ CompatibilityOf(p) = ScoreTimesWeight(p)

\* C1 witness: a score other than 0 and 5 on a sheet whose Lab weights do
\* not sum to 100 (A = 3 for Lab on the two-criteria sheet: 3 * 100 fifths).
C1_Witness ==
    /\ outcome = "ok"
    /\ Len(df) = 2
    /\ WeightSum("Lab") = 125
    /\ ScoreOf("Lab", "A") = 3
    /\ CompatibilityOf("Lab") = 300

\* C2 as stated: compatibility is 100 exactly when every criterion scores 5
\* and the typology's weights sum to 100.
C2_HundredIffAllFive ==
    outcome = "ok" =>
        \A p \in {"Housing", "Education", "Lab", "Data Center"} :
            CompatibilityOf(p) = 500 <=> (AllScore(p, 5) /\ WeightSum(p) = 100)

PositiveWeights(p) == \A k \in DOMAIN df : df[k].Weight[p] > 0

\* C2 amended: compatibility is 100 if every criterion scores 5 and the
\* typology's weights sum to 100; and, for a typology whose weights are all
\* positive and sum to at most 100, compatibility is 100 only if every
\* criterion scores 5 and the weights sum to exactly 100.
C2_HundredAmended ==
    outcome = "ok" =>
        \A p \in {"Housing", "Education", "Lab", "Data Center"} :
            /\ (AllScore(p, 5) /\ WeightSum(p) = 100)
                    => CompatibilityOf(p) = 500
            /\ (PositiveWeights(p) /\ WeightSum(p) <= 100
                    /\ CompatibilityOf(p) = 500)
                    => (AllScore(p, 5) /\ WeightSum(p) = 100)

\* C2 witness: every criterion at 5 for a typology whose weights are positive
\* and sum to 100, and the compatibility is 100.
C2_Witness ==
    /\ outcome = "ok"
    /\ \E p \in {"Housing", "Education", "Lab", "Data Center"} :
          /\ AllScore(p, 5)
          /\ PositiveWeights(p)
          /\ WeightSum(p) = 100
          /\ CompatibilityOf(p) = 500

\* C3: in every run that reaches the math engine, a typology all of whose
\* scores are 0 has compatibility 0; and the run that initialises the
\* session from a non-empty store gives all four typologies compatibility 0.
C3_ZeroScoresZeroCompatibility ==
    [][/\ outcome' = "ok" =>
            \A i \in DOMAIN comparison_data' :
                (\A j \in DOMAIN session_state'.program_memory[
                                    comparison_data'[i].Typology] :
                    session_state'.program_memory[
                        comparison_data'[i].Typology][j].v = 0)
                => comparison_data'[i].Compatibility = 0
       /\ (~HasMemory /\ df' # <<>>) =>
            /\ outcome' = "ok"
            /\ Len(comparison_data') = 4
            /\ \A i \in DOMAIN comparison_data' :
                  comparison_data'[i].Compatibility = 0
      ]_vars

\* C3 witness: the session has just been initialised from a non-empty
\* store; every score is 0 and all four compatibilities are 0.
C3_Witness ==
    /\ outcome = "ok"
    /\ moves = 0
    /\ Len(df) = 2
    /\ \A p \in {"Housing", "Education", "Lab", "Data Center"} :
          AllScore(p, 0) /\ CompatibilityOf(p) = 0

WeightOf(p, c) == df[CHOOSE k \in DOMAIN df : df[k].Criterion = c].Weight[p]

\* C4 as stated: the impact of each gap row is (5 - score) * weight of that
\* criterion for the selected typology; with A (Housing weight 60) at 5 and
\* B (Housing weight 40) at 0, the top gap for Housing is (B, 40).
C4_ImpactTimesWeight ==
    outcome = "ok" =>
        /\ \A j \in DOMAIN risk_df :
              risk_df[j].Criterion \in Criteria =>
                  risk_df[j].Impact =
                      (5 - ScoreOf(target_program, risk_df[j].Criterion))
                      * WeightOf(target_program, risk_df[j].Criterion)
        /\ (/\ target_program = "Housing"
            /\ Len(df) = 2
            /\ ScoreOf("Housing", "A") = 5
            /\ ScoreOf("Housing", "B") = 0)
               => risk_df[1] = [Criterion |-> "B", Impact |-> 40]

\* C4 amended: the impact of each gap row is (5 - score) * 20 for the
\* selected typology's score of that criterion, whatever the criterion's
\* weight; with A (Housing weight 60) at 5 and B (Housing weight 40) at 0,
\* the top gap for Housing is (B, 100).
C4_ImpactTimesTwenty ==
    outcome = "ok" =>
        /\ \A j \in DOMAIN risk_df :
              /\ HasScore(target_program, risk_df[j].Criterion)
              /\ risk_df[j].Impact =
                     (5 - ScoreOf(target_program, risk_df[j].Criterion)) * 20
        /\ (/\ target_program = "Housing"
            /\ Len(df) = 2
            /\ ScoreOf("Housing", "A") = 5
            /\ ScoreOf("Housing", "B") = 0)
               => risk_df[1] = [Criterion |-> "B", Impact |-> 100]

\* C4 witness: the example's state, A at 5 and B at 0 for Housing, with the
\* gap list computed.
C4_Witness ==
    /\ outcome = "ok"
    /\ target_program = "Housing"
    /\ Len(df) = 2
    /\ ScoreOf("Housing", "A") = 5
    /\ ScoreOf("Housing", "B") = 0
    /\ Len(risk_df) = 2

\* Position of criterion c in the ScoreSet of the selected typology.
PositionOf(c) ==
    CHOOSE i \in DOMAIN ScoreSet(target_program) :
        ScoreSet(target_program)[i].k = c

\* C5: the gap list has at most 5 rows, is sorted in non-increasing order of
\* impact, holds the highest impacts of the ScoreSet, and rows of equal
\* impact appear in their original criterion order.
C5_TopFiveStable ==
    outcome = "ok" =>
        /\ Len(risk_df) <= 5
        /\ \A i, j \in DOMAIN risk_df :
              i < j => risk_df[i].Impact >= risk_df[j].Impact
        /\ \A i \in DOMAIN ScoreSet(target_program) :
              (\A j \in DOMAIN risk_df :
                    risk_df[j].Criterion # ScoreSet(target_program)[i].k)
              => \A j \in DOMAIN risk_df :
                    risk_df[j].Impact
                        >= (5 - ScoreSet(target_program)[i].v) * 20
        /\ \A i, j \in DOMAIN risk_df :
              (i < j /\ risk_df[i].Impact = risk_df[j].Impact)
              => PositionOf(risk_df[i].Criterion)
                    < PositionOf(risk_df[j].Criterion)

\* The first row of comp_df that is not the selected typology.
FirstOther ==
    CHOOSE i \in DOMAIN comp_df :
        /\ comp_df[i].Typology # target_program
        /\ \A j \in 1..(i - 1) : comp_df[j].Typology = target_program

\* C6: the recommended alternative is never the selected typology, its
\* compatibility is at least that of every other typology but the selected
\* one, and among equals it is the first in the descending-sorted table
\* comp_df.
C6_BestAlternative ==
    outcome = "ok" =>
        /\ Len(best_alt) = 1
        /\ best_alt[1].Typology # target_program
        /\ \A p \in {"Housing", "Education", "Lab", "Data Center"} :
              p # target_program
                  => best_alt[1].Compatibility >= CompatibilityOf(p)
        /\ best_alt[1].Compatibility = CompatibilityOf(best_alt[1].Typology)
        /\ \A i, j \in DOMAIN comp_df :
              i < j => comp_df[i].Compatibility >= comp_df[j].Compatibility
        /\ {comp_df[i] : i \in DOMAIN comp_df}
              = {comparison_data[i] : i \in DOMAIN comparison_data}
        /\ best_alt[1] = comp_df[FirstOther]

\* C6 witness: the selected typology has the highest compatibility of all,
\* and two of the remaining typologies tie for the maximum.
C6_Witness ==
    /\ outcome = "ok"
    /\ current_score[1] > best_alt[1].Compatibility
    /\ comp_df[1].Typology = target_program
    /\ \E p \in {"Housing", "Education", "Lab", "Data Center"} :
          /\ p # target_program
          /\ p # best_alt[1].Typology
          /\ CompatibilityOf(p) = best_alt[1].Compatibility

\* C7: whenever the store is not empty, every criterion of the store has an
\* entry in every typology's ScoreSet and the run ends without a lookup
\* error.
C7_ScoreSetsCoverStore ==
    (HasMemory /\ df # <<>>) =>
        /\ outcome # "KeyError"
        /\ \A p \in {"Housing", "Education", "Lab", "Data Center"} :
              \A c \in Criteria : HasScore(p, c)

\* C8: a run whose load failed gets an empty criteria set, shows the error,
\* renders no slider, computes no compatibility, gap or best alternative,
\* and ends without crashing.
C8_FailedLoadDegrades ==
    /\ (outcome # "none" /\ df = <<>>) =>
          /\ outcome = "empty"
          /\ "Connection Error: Check Google Sheet URL." \in messages
          /\ rendered = {}
          /\ comparison_data = <<>> /\ comp_df = <<>> /\ risk_df = <<>>
          /\ current_score = <<>> /\ best_alt = <<>>
    /\ (cache # <<>> /\ cache[1].failed) =>
          /\ df = <<>>
          /\ outcome = "empty"
          /\ "Connection Error: exception" \in messages

\* C8 witness: a run whose load failed has ended.
C8_Witness ==
    /\ outcome = "empty"
    /\ cache # <<>>
    /\ cache[1].failed
    /\ "Connection Error: exception" \in messages

\* C9: every value in every ScoreSet is an integer in 0..5, and the run
\* that initialises the session stores 0 for every criterion.
C9_ScoresInRange ==
    [][/\ HasMemory' =>
            \A p \in {"Housing", "Education", "Lab", "Data Center"} :
                \A i \in DOMAIN session_state'.program_memory[p] :
                    session_state'.program_memory[p][i].v \in 0..5
       /\ ~HasMemory =>
            \A p \in {"Housing", "Education", "Lab", "Data Center"} :
                /\ {session_state'.program_memory[p][i].k :
                      i \in DOMAIN session_state'.program_memory[p]}
                   = {df'[k].Criterion : k \in DOMAIN df'}
                /\ \A i \in DOMAIN session_state'.program_memory[p] :
                      session_state'.program_memory[p][i].v = 0
      ]_vars

\* C9 witness: a slider has been moved to the top of its range.
C9_Witness ==
    /\ HasMemory
    /\ event.kind = "slider"
    /\ HasScore(target_program, event.criterion)
    /\ ScoreOf(target_program, event.criterion) = 5

\* C10: a run changes the ScoreSet of no typology but the selected one, and
\* that one only when a slider of it was moved; so the scores of a typology
\* are the same when the user switches back to it.  The compatibility of a
\* typology whose ScoreSet a run leaves unchanged is unchanged too, the
\* store being the same.
C10_OnlyTargetScoreSet ==
    [][HasMemory =>
        \A p \in {"Housing", "Education", "Lab", "Data Center"} :
            /\ session_state'.program_memory[p]
                    # session_state.program_memory[p]
               => /\ p = target_program'
                  /\ event'.kind = "slider"
                  /\ event'.typology = p
            /\ (/\ outcome = "ok" /\ outcome' = "ok" /\ df' = df
                /\ session_state'.program_memory[p]
                       = session_state.program_memory[p])
               => \A i \in DOMAIN comparison_data :
                     comparison_data[i].Typology = p
                        => comparison_data'[i] = comparison_data[i]
      ]_vars

\* C10 witness: the user is back on a typology after selecting another one,
\* and the score set for it earlier is still there.
C10_Witness ==
    /\ outcome = "ok"
    /\ event.kind = "select"
    /\ moves = 1
    /\ \E c \in Criteria : ScoreOf(target_program, c) # 0
    /\ \A p \in {"Housing", "Education", "Lab", "Data Center"} :
          p # target_program => AllScore(p, 0)

====
